---- MODULE Spec2Model ----
(***************************************************************************)
(* The N-body simulation of solarsystemprojectv2.2.py: construction of the *)
(* bodies (lines 137-162) and the simulation loop (lines 166-188), one     *)
(* action per loop iteration of the source.                                *)
(*                                                                         *)
(* Numbers.  The source computes with IEEE doubles.  Here a number is an   *)
(* integer count of 1/FP units (fixed point), and every multiplication,    *)
(* division and square root rounds its exact result to the nearest         *)
(* representable number, symmetrically in the sign, as the float           *)
(* operations do.  Products are therefore not associative and small        *)
(* quotients underflow to 0, as in the source.  Overflow to infinity is    *)
(* not modelled.  Lengths, times and masses are in model units, not SI.    *)
(***************************************************************************)
EXTENDS Integers, Sequences, FiniteSets, TLC

\* ------------------------------------------------------------- bounds
\* Units per 1.0: the precision of the arithmetic.
FP == 8
\* How many entries of planet_ids are simulated (the source has 8).
NumPlanets == 2
\* How many iterations of the `while True` loop are explored.
MaxTicks == 2
\* How many bodies the constructor specification creates.
MaxCreated == 2

\* --------------------------------------------------------- arithmetic
Abs(x) == IF x < 0 THEN -x ELSE x

Max(a, b) == IF a >= b THEN a ELSE b

\* a / b rounded to the nearest integer, halves away from zero; b # 0.
RDiv(a, b) ==
    LET q == (2 * Abs(a) + Abs(b)) \div (2 * Abs(b))
    IN  IF (a < 0) = (b < 0) THEN q ELSE -q

\* x * y and x / y of two numbers, rounded.
FMul(x, y) == RDiv(x * y, FP)

FDiv(x, y) == RDiv(x * FP, y)

\* sqrt(x), rounded; x >= 0.
FSqrt(x) ==
    LET n == x * FP
        r == CHOOSE s \in 0..n : s * s <= n /\ (s + 1) * (s + 1) > n
    IN  IF n - r * r > r THEN r + 1 ELSE r

\* ----------------------------------------------------- vpython vector
vector(x, y, z) == <<x, y, z>>

VAdd(a, b) == <<a[1] + b[1], a[2] + b[2], a[3] + b[3]>>

VSub(a, b) == <<a[1] - b[1], a[2] - b[2], a[3] - b[3]>>

VNeg(a) == <<-a[1], -a[2], -a[3]>>

\* vector * scalar and vector / scalar, componentwise.
VMul(a, s) == <<FMul(a[1], s), FMul(a[2], s), FMul(a[3], s)>>

VDiv(a, s) == <<FDiv(a[1], s), FDiv(a[2], s), FDiv(a[3], s)>>

mag(a) == FSqrt(FMul(a[1], a[1]) + FMul(a[2], a[2]) + FMul(a[3], a[3]))

\* vpython's norm: the zero vector has norm zero, no division.
norm(a) == IF mag(a) > 0 THEN VDiv(a, mag(a)) ELSE vector(0, 0, 0)

\* ---------------------------------------------------------- constants
\* One astronomical unit is two model lengths; one day is two model times.
AU == 2 * FP

DAY == 2 * FP

\* 0.375 in model units.
G == 3

\* 0.5 in model units.
SCALE == FP \div 2

\* dt = 60 * 60 * TIME_SCALE seconds, one day.
dt == 2 * FP

masses ==
    [Sun |-> 37, Mercury |-> 3, Venus |-> 11, Earth |-> 13, Mars |-> 5,
     Jupiter |-> 29, Saturn |-> 23, Uranus |-> 17, Neptune |-> 19]

radii ==
    [Sun |-> 70, Mercury |-> 2, Venus |-> 6, Earth |-> 7, Mars |-> 3,
     Jupiter |-> 71, Saturn |-> 58, Uranus |-> 25, Neptune |-> 24]

colors_dict ==
    [Sun |-> "yellow", Mercury |-> "gray", Venus |-> "orange",
     Earth |-> "blue", Mars |-> "red", Jupiter |-> "orange",
     Saturn |-> "yellow", Uranus |-> "cyan", Neptune |-> "purple"]

\* The keys of planet_ids in the dict's (insertion) order, cut to NumPlanets.
planet_ids ==
    SubSeq(<<"Mercury", "Venus", "Earth", "Mars", "Jupiter", "Saturn",
             "Uranus", "Neptune">>, 1, NumPlanets)

\* What get_planet_data can return: positions in AU, velocities in AU/day.
HorizonsPositions ==
    { vector(0, 0, 0), vector(FP \div 2, 0, 0), vector(0 - (FP \div 2), 0, 0),
      vector(0, FP \div 2, FP \div 2) }

HorizonsVelocities == { vector(0, 0, 0), vector(0, FP \div 2, 0) }

\* -------------------------------------------------------------- state
VARIABLES
    planet_objects,   \* the list of Planet objects, in insertion order
    forces,           \* the forces dict of the current tick, by list index
    pc,               \* where the program is
    i, j,             \* the loop indices
    err,              \* the uncaught exception that ended the program
    ticks,            \* completed iterations of the while loop
    built,            \* history: planet_objects when construction ended
    start             \* history: planet_objects when the current tick began

vars == <<planet_objects, forces, pc, i, j, err, ticks, built, start>>

\* ------------------------------------------------------------- Planet
\* The visual radius and label offset of line 74 and line 78.
SphereRadius(radius) == Max(FMul(radius, 1), FP \div 4)

LabelPos(sphere_pos, sphere_radius) ==
    VAdd(sphere_pos, vector(2 * sphere_radius, 0, 0))

\* Planet.__init__: stores its arguments as given and builds the visuals.
Planet(name, mass, position, velocity, radius, color) ==
    [name |-> name, mass |-> mass, pos |-> position, vel |-> velocity,
     radius |-> radius, color |-> color,
     sphere_pos |-> VMul(position, SCALE),
     sphere_radius |-> SphereRadius(radius),
     label_pos |-> LabelPos(VMul(position, SCALE), SphereRadius(radius))]

\* Variant: the visual radius is written into the body's radius.
update_visual_radius(self) ==
    [self EXCEPT !.sphere_pos = VMul(self.pos, SCALE),
                 !.label_pos = LabelPos(VMul(self.pos, SCALE), self.sphere_radius),
                 !.radius = self.sphere_radius]

\* Lines 80-82.
update_visual(self) ==
    [self EXCEPT !.sphere_pos = VMul(self.pos, SCALE),
                 !.label_pos = LabelPos(VMul(self.pos, SCALE), self.sphere_radius)]

\* ------------------------------------------------------------- forces
\* Variant: a zero distance yields a zero force instead of raising.
compute_gravitational_force_guarded(body1, body2) ==
    LET r_vec == VSub(body2.pos, body1.pos)
        distance == mag(r_vec)
        d2 == FMul(distance, distance)
    IN  [raised |-> FALSE,
         value |-> IF d2 = 0 THEN vector(0, 0, 0)
                   ELSE VMul(norm(r_vec),
                             FDiv(FMul(FMul(G, body1.mass), body2.mass), d2))]

\* Variant: the magnitude uses body1's mass twice.
compute_gravitational_force_own_mass(body1, body2) ==
    LET r_vec == VSub(body2.pos, body1.pos)
        distance == mag(r_vec)
        d2 == FMul(distance, distance)
    IN  IF d2 = 0
        THEN [raised |-> TRUE, value |-> vector(0, 0, 0)]
        ELSE [raised |-> FALSE,
              value |-> VMul(norm(r_vec),
                             FDiv(FMul(FMul(G, body1.mass), body1.mass), d2))]

\* compute_gravitational_force(body1, body2): either the division of line
\* 124 raises ZeroDivisionError (distance**2 is 0.0) or a vector returns.
compute_gravitational_force(body1, body2) ==
    LET r_vec == VSub(body2.pos, body1.pos)
        distance == mag(r_vec)
        d2 == FMul(distance, distance)
    IN  IF d2 = 0
        THEN [raised |-> TRUE, value |-> vector(0, 0, 0)]
        ELSE [raised |-> FALSE,
              value |-> VMul(norm(r_vec),
                             FDiv(FMul(FMul(G, body1.mass), body2.mass), d2))]

\* Variant: the dict of the previous tick is kept.
InitialForces_carried(n) ==
    IF Len(forces) = n THEN forces ELSE [k \in 1..n |-> vector(0, 0, 0)]

\* Line 172: a fresh dict, every force the zero vector.
InitialForces(n) == [k \in 1..n |-> vector(0, 0, 0)]

\* Variant: a body's own pair is not skipped.
IsOther_always(ii, jj) == TRUE

\* Line 178: a body exerts no force on itself.
IsOther(ii, jj) == ii # jj

\* Variant: every body is integrated.
Moves_always(planet) == TRUE

\* Line 184: the Sun is kept where it is.
Moves(planet) == planet.name # "Sun"

\* Variant: explicit Euler, the position advances by the old velocity.
EulerStep_old_velocity(planet, force) ==
    LET acceleration == VDiv(force, planet.mass)
    IN  [planet EXCEPT !.vel = VAdd(planet.vel, VMul(acceleration, dt)),
                       !.pos = VAdd(planet.pos, VMul(planet.vel, dt))]

\* Lines 185-187: velocity first, then position from the new velocity.
EulerStep(planet, force) ==
    LET acceleration == VDiv(force, planet.mass)
        vel == VAdd(planet.vel, VMul(acceleration, dt))
    IN  [planet EXCEPT !.vel = vel, !.pos = VAdd(planet.pos, VMul(vel, dt))]

\* Variant: each body is integrated right after its own row of forces.
NextStep_interleaved(at, ii, jj, n) ==
    IF at = "force"
    THEN IF jj < n THEN [pc |-> "force", i |-> ii, j |-> jj + 1]
         ELSE [pc |-> "integrate", i |-> ii, j |-> 1]
    ELSE IF ii < n THEN [pc |-> "force", i |-> ii + 1, j |-> 1]
         ELSE [pc |-> "loop", i |-> ii, j |-> jj]

\* Variant: the integration loop stops one body early.
NextStep_short(at, ii, jj, n) ==
    IF at = "force"
    THEN IF jj < n THEN [pc |-> "force", i |-> ii, j |-> jj + 1]
         ELSE IF ii < n THEN [pc |-> "force", i |-> ii + 1, j |-> 1]
         ELSE [pc |-> "integrate", i |-> 1, j |-> 1]
    ELSE IF ii < n - 1 THEN [pc |-> "integrate", i |-> ii + 1, j |-> jj]
         ELSE [pc |-> "loop", i |-> ii, j |-> jj]

\* The loop structure of lines 176-188: where control goes after the
\* iteration (i, j) of the force loops, or i of the integration loop.
NextStep(at, ii, jj, n) ==
    IF at = "force"
    THEN IF jj < n THEN [pc |-> "force", i |-> ii, j |-> jj + 1]
         ELSE IF ii < n THEN [pc |-> "force", i |-> ii + 1, j |-> 1]
         ELSE [pc |-> "integrate", i |-> 1, j |-> 1]
    ELSE IF ii < n THEN [pc |-> "integrate", i |-> ii + 1, j |-> jj]
         ELSE [pc |-> "loop", i |-> ii, j |-> jj]

\* ------------------------------------------------------------ actions
Init ==
    /\ planet_objects = <<>>
    /\ forces = <<>>
    /\ pc = "sun"
    /\ i = 0
    /\ j = 0
    /\ err = "none"
    /\ ticks = 0
    /\ built = <<>>
    /\ start = <<>>

\* Lines 137-146.
CreateSun ==
    /\ pc = "sun"
    /\ planet_objects' =
         <<Planet("Sun", masses["Sun"], vector(0, 0, 0), vector(0, 0, 0),
                  radii["Sun"], colors_dict["Sun"])>>
    /\ pc' = "fetch"
    /\ i' = 1
    /\ built' = IF Len(planet_ids) = 0 THEN planet_objects' ELSE built
    /\ UNCHANGED <<forces, j, err, ticks, start>>

\* Lines 148-162, one iteration: fetch, convert units, construct, append.
FetchPlanet ==
    /\ pc = "fetch"
    /\ i <= Len(planet_ids)
    /\ \E position \in HorizonsPositions, velocity \in HorizonsVelocities :
         LET name == planet_ids[i]
             pos_m == VMul(position, AU)
             vel_mps == VDiv(VMul(velocity, AU), DAY)
         IN  planet_objects' =
               Append(planet_objects,
                      Planet(name, masses[name], pos_m, vel_mps, radii[name],
                             colors_dict[name]))
    /\ i' = i + 1
    /\ pc' = IF i = Len(planet_ids) THEN "loop" ELSE "fetch"
    /\ built' = IF i = Len(planet_ids) THEN planet_objects' ELSE built
    /\ UNCHANGED <<forces, j, err, ticks, start>>

\* Lines 166-172: the top of the while loop.
BeginTick ==
    /\ pc = "loop"
    /\ ticks < MaxTicks
    /\ forces' = InitialForces(Len(planet_objects))
    /\ start' = planet_objects
    /\ LET to == IF Len(planet_objects) = 0
                 THEN [pc |-> "loop", i |-> 1, j |-> 1]
                 ELSE [pc |-> "force", i |-> 1, j |-> 1]
       IN  pc' = to.pc /\ i' = to.i /\ j' = to.j
    /\ ticks' = IF Len(planet_objects) = 0 THEN ticks + 1 ELSE ticks
    /\ UNCHANGED <<planet_objects, err, built>>

\* Lines 176-180, one iteration of the inner loop.
ForcePair ==
    /\ pc = "force"
    /\ LET n == Len(planet_objects)
           to == NextStep("force", i, j, n)
           force == compute_gravitational_force(planet_objects[i],
                                                planet_objects[j])
       IN  IF IsOther(i, j) /\ force.raised
           THEN /\ pc' = "raised"
                /\ err' = "ZeroDivisionError"
                /\ UNCHANGED <<forces, i, j>>
           ELSE /\ forces' = IF i # j
                             THEN [forces EXCEPT ![i] = VAdd(@, force.value)]
                             ELSE forces
                /\ pc' = to.pc
                /\ i' = to.i
                /\ j' = to.j
                /\ err' = err
    /\ UNCHANGED <<planet_objects, ticks, built, start>>

\* Lines 183-188, one iteration.
Integrate ==
    /\ pc = "integrate"
    /\ LET n == Len(planet_objects)
           to == NextStep("integrate", i, j, n)
           planet == planet_objects[i]
           moved == IF Moves(planet) THEN EulerStep(planet, forces[i])
                    ELSE planet
       IN  /\ planet_objects' = [planet_objects EXCEPT ![i] = update_visual(moved)]
           /\ pc' = to.pc
           /\ i' = to.i
           /\ j' = to.j
           /\ ticks' = IF to.pc = "loop" THEN ticks + 1 ELSE ticks
    /\ UNCHANGED <<forces, err, built, start>>

Next == CreateSun \/ FetchPlanet \/ BeginTick \/ ForcePair \/ Integrate

Spec == Init /\ [][Next]_vars

\* ------------------------------------------- the loop on a one-body list
\* The simulation loop of lines 166-188 run on a list holding one body.
SinglePositions ==
    { vector(0, 0, 0), vector(FP, 0, 0), vector(0, FP, 0 - FP),
      vector(FP \div 2, FP \div 2, 0) }

SingleVelocities ==
    { vector(0, 0, 0), vector(0, FP \div 2, 0), vector(0 - FP, 0, FP \div 4) }

InitSingle ==
    /\ \E name \in {"Sun", "Earth"}, position \in SinglePositions,
          velocity \in SingleVelocities :
         planet_objects =
           <<Planet(name, masses[name], position, velocity, radii[name],
                    colors_dict[name])>>
    /\ forces = <<>>
    /\ pc = "loop"
    /\ i = 0
    /\ j = 0
    /\ err = "none"
    /\ ticks = 0
    /\ built = planet_objects
    /\ start = <<>>

NextSingle == BeginTick \/ ForcePair \/ Integrate

SpecSingle == InitSingle /\ [][NextSingle]_vars

\* --------------------------------------------- the constructor on its own
\* Planet.__init__ called with any mass, as its signature allows.
MassArguments == { 0 - FP, 0, FP }

InitCreate ==
    /\ planet_objects = <<>>
    /\ forces = <<>>
    /\ pc = "create"
    /\ i = 0
    /\ j = 0
    /\ err = "none"
    /\ ticks = 0
    /\ built = <<>>
    /\ start = <<>>

NewPlanet ==
    /\ pc = "create"
    /\ Len(planet_objects) < MaxCreated
    /\ \E name \in {"Sun", "Earth"}, mass \in MassArguments,
          position \in {vector(0, 0, 0), vector(FP, 0, 0)} :
         planet_objects' =
           Append(planet_objects,
                  Planet(name, mass, position, vector(0, 0, 0), radii[name],
                         colors_dict[name]))
    /\ UNCHANGED <<forces, pc, i, j, err, ticks, built, start>>

NextCreate == NewPlanet

SpecCreate == InitCreate /\ [][NextCreate]_vars

\* ------------------------------------------------------------- claims
Zero == vector(0, 0, 0)

Bodies == DOMAIN planet_objects

\* Construction is over: the while loop is running or has been left.
Running == pc \in {"loop", "force", "integrate", "raised"}

\* A tick has run to its end.
TickDone == pc = "loop" /\ ticks > 0

\* Two distinct bodies of the list are at the same position.
Coincident(objs) ==
    \E a, b \in DOMAIN objs : a # b /\ objs[a].pos = objs[b].pos

\* The sum, in list order, of the force on body k by each body 1..m but k.
RECURSIVE SumForces(_, _, _)
SumForces(objs, k, m) ==
    IF m = 0 THEN Zero
    ELSE IF m = k THEN SumForces(objs, k, m - 1)
    ELSE VAdd(SumForces(objs, k, m - 1),
              compute_gravitational_force(objs[k], objs[m]).value)

NetForce(objs, k) == SumForces(objs, k, Len(objs))

\* G * m1 * m2 as Python evaluates it, left to right.
MassProduct(body1, body2) == FMul(FMul(G, body1.mass), body2.mass)

\* C1: the body named "Sun" has, at every point of the simulation loop, the
\* position and the velocity it was constructed with.
C1_SunStationary ==
    Running =>
      \A k \in Bodies :
        planet_objects[k].name = "Sun" =>
          /\ planet_objects[k].pos = built[k].pos
          /\ planet_objects[k].vel = built[k].vel

\* C1 witness: a tick has ended in which a nonzero net force acted on the Sun
\* and another body moved.
C1_Witness ==
    /\ TickDone
    /\ \E k \in Bodies : planet_objects[k].name = "Sun" /\ forces[k] # Zero
    /\ \E k \in Bodies : planet_objects[k].pos # built[k].pos

\* C2: while forces are being computed no body's position or velocity has
\* been written since the tick began, and when integration runs every body's
\* stored force is its complete net force from the positions at the tick's start.
C2_ForcesFromTickStart ==
    /\ pc = "force" =>
         \A k \in Bodies :
           /\ planet_objects[k].pos = start[k].pos
           /\ planet_objects[k].vel = start[k].vel
    /\ pc = "integrate" =>
         \A k \in Bodies : forces[k] = NetForce(start, k)

\* C2 witness: integration is under way, a body has already moved, and a
\* body still to be integrated has a nonzero stored force.
C2_Witness ==
    /\ pc = "integrate"
    /\ \E k \in Bodies : k < i /\ planet_objects[k].pos # start[k].pos
    /\ forces[i] # Zero

C4_AllOrNothing ==
    /\ pc = "raised" =>
         \A k \in Bodies :
           /\ planet_objects[k].pos = start[k].pos
           /\ planet_objects[k].vel = start[k].vel
    /\ TickDone =>
         \A k \in Bodies :
           planet_objects[k].name # "Sun" =>
             planet_objects[k].vel =
               VAdd(start[k].vel,
                    VMul(VDiv(NetForce(start, k), start[k].mass), dt))

\* C4 witness: the tick raised on a pair found after the first row, when
\* a nonzero force had already been accumulated for the first body.
C4_Witness ==
    /\ pc = "raised"
    /\ i > 1
    /\ forces[1] # Zero

C6_ExactNegation ==
    Running =>
      \A a, b \in Bodies :
        (a # b /\ planet_objects[a].pos # planet_objects[b].pos
           /\ ~compute_gravitational_force(planet_objects[a], planet_objects[b]).raised)
          => compute_gravitational_force(planet_objects[a], planet_objects[b]).value
               = VNeg(compute_gravitational_force(planet_objects[b], planet_objects[a]).value)

\* C6 (amended): the two forces of a pair raise together, have exactly
\* opposite directions, and are exact negations of each other whenever the
\* products G*m_a*m_b and G*m_b*m_a, each rounded left to right, agree.
C6_NegationWhenProductsAgree ==
    Running =>
      \A a, b \in Bodies :
        a # b =>
          LET A == planet_objects[a]
              B == planet_objects[b]
              fab == compute_gravitational_force(A, B)
              fba == compute_gravitational_force(B, A)
          IN  /\ fab.raised = fba.raised
              /\ norm(VSub(B.pos, A.pos)) = VNeg(norm(VSub(A.pos, B.pos)))
              /\ (~fab.raised /\ MassProduct(A, B) = MassProduct(B, A))
                   => fab.value = VNeg(fba.value)

\* C6 witness: forces are being summed over a pair of unequal masses whose
\* products agree and whose force is not zero.
C6_Witness ==
    /\ pc = "integrate"
    /\ \E a, b \in Bodies :
         /\ a # b
         /\ planet_objects[a].mass # planet_objects[b].mass
         /\ MassProduct(planet_objects[a], planet_objects[b])
              = MassProduct(planet_objects[b], planet_objects[a])
         /\ ~compute_gravitational_force(planet_objects[a], planet_objects[b]).raised
         /\ compute_gravitational_force(planet_objects[a], planet_objects[b]).value # Zero

\* C7: after a tick every body but the Sun has velocity = old velocity +
\* (stored force / mass) * dt and position = old position + that new velocity * dt.
C7_VelocityThenPosition ==
    TickDone =>
      \A k \in Bodies :
        planet_objects[k].name # "Sun" =>
          /\ planet_objects[k].vel =
               VAdd(start[k].vel, VMul(VDiv(forces[k], start[k].mass), dt))
          /\ planet_objects[k].pos =
               VAdd(start[k].pos, VMul(planet_objects[k].vel, dt))

\* C7 witness: a body that was moving has been accelerated in the tick.
C7_Witness ==
    /\ TickDone
    /\ \E k \in Bodies :
         /\ planet_objects[k].name # "Sun"
         /\ start[k].vel # Zero
         /\ planet_objects[k].vel # start[k].vel

\* C8: every body that was created has a mass above zero.
C8_MassPositive ==
    \A k \in Bodies : planet_objects[k].mass > 0

\* C9: throughout the loop the list has the bodies it was built with, in the
\* same order, each with the name, mass and radius it was built with.
C9_OnlyPosVelChange ==
    Running =>
      /\ Len(planet_objects) = Len(built)
      /\ \A k \in Bodies :
           /\ planet_objects[k].name = built[k].name
           /\ planet_objects[k].mass = built[k].mass
           /\ planet_objects[k].radius = built[k].radius

\* C9 witness: two ticks have ended and a body is no longer where it was built.
C9_Witness ==
    /\ pc = "loop"
    /\ ticks > 1
    /\ \E k \in Bodies :
         /\ planet_objects[k].pos # built[k].pos
         /\ planet_objects[k].vel # built[k].vel

\* C10: in every tick the stored force of body k is the sum, started from
\* zero, of one term per other body already visited by the loops: all of them
\* for the rows done, those before j for the row in progress, none for the
\* rows to come; the Sun is a source like any other body.
C10_NetForceIsSumOverOthers ==
    /\ pc = "force" =>
         \A k \in Bodies :
           forces[k] =
             SumForces(start, k,
                       IF k < i THEN Len(start) ELSE IF k = i THEN j - 1 ELSE 0)
    /\ (pc = "integrate" \/ TickDone) =>
         \A k \in Bodies : forces[k] = SumForces(start, k, Len(start))

\* C10 witness: in a second tick, with the forces of the first tick not all
\* zero, a row is in progress for a body on which the Sun's pull is a term.
C10_Witness ==
    /\ pc = "force"
    /\ ticks > 0
    /\ j > 1
    /\ planet_objects[1].name = "Sun"
    /\ i > 1
    /\ compute_gravitational_force(planet_objects[i], planet_objects[1]).value # Zero
    /\ forces[i] # Zero

====
